---- MODULE Spec2Model ----
(***************************************************************************)
(* THz-TDS Toolkit: the shared measurement store (core/data_manager.py)    *)
(* and the page handlers that fill and read the per-dataset results cache  *)
(* (pages/frequency_page.py, pages/phase_page.py, pages/time_page.py).     *)
(*                                                                         *)
(* Time values are integers counted in units of 1e-12 ps, so the absolute  *)
(* tolerance atol = 1e-12 of the time-axis check is one unit.              *)
(***************************************************************************)
EXTENDS Integers, Sequences, FiniteSets, TLC

VARIABLES
    datasets,          \* DataManager.datasets: list of dataset dicts
    reference_path,    \* DataManager.reference_path
    window_type,       \* FrequencyPage.window_type
    window_args_text,  \* FrequencyPage.window_args_text
    start_time_ps,     \* FrequencyPage.start_time_ps
    stop_time_ps,      \* FrequencyPage.stop_time_ps
    unwrap_method,     \* PhasePage.unwrap_method
    op                 \* the last call: its name, arguments, result, the
                       \* labels it set, the exception it let escape

vars == <<datasets, reference_path, window_type, window_args_text,
          start_time_ps, stop_time_ps, unwrap_method, op>>

storeVars == <<datasets, reference_path>>
freqVars == <<window_type, window_args_text, start_time_ps, stop_time_ps>>
phaseVars == <<unwrap_method>>

----------------------------------------------------------------------------
(* Bounds of the model *)

\* datasets in the store when any caller drives the DataManager
MaxDatasets == 3
\* paths in one call of load_files
MaxBatch == 3
\* datasets in the store when the pages run on top of it
MaxLoaded == 2
\* samples of a signal handed to apply_window and compute_fft directly
MaxN == 3
\* frequency bins of a transmission handed to unwrap_phase_informed
MaxBins == 8
\* bins of a spectrum handed to normalize_fft directly
MaxSpectrum == 2
\* samples of a phase curve handed to unwrap_phase directly
MaxPhases == 3

----------------------------------------------------------------------------
(* Python values *)

\* None where a string is expected (reference_path, the exception of a call)
None == "<None>"
\* an optional integer (stop_idx): None, or the integer
NoIdx == <<>>
Some(n) == <<n>>
\* None where an object (a dataset dict) is expected
NoneObj == [none |-> TRUE]
\* the empty dict {}
EmptyDict == <<>>

\* d[k] = v
Put(d, k, v) == [z \in (DOMAIN d) \cup {k} |-> IF z = k THEN v ELSE d[z]]
\* d.pop(k, None)
Pop(d, k) == [z \in (DOMAIN d) \ {k} |-> d[z]]
\* k in d
Has(d, k) == k \in DOMAIN d

Abs(n) == IF n < 0 THEN -n ELSE n

\* truthiness of a string-or-None: "not path" is true for None and for ""
Falsy(s) == s = None \/ s = ""

----------------------------------------------------------------------------
(* The files on disk: what load_data makes of each path *)

Paths == {"a.csv", "b.csv", "c.csv", "d.csv", "bad.csv"}

\* pandas raises on these (missing file, malformed CSV, no "time" column)
Unreadable == {"bad.csv"}

FileTime(path) ==
    CASE path = "a.csv" -> <<0, 10, 20>>
      [] path = "b.csv" -> <<0, 11, 20>>
      [] path = "c.csv" -> <<0, 12, 20>>
      [] path = "d.csv" -> <<0>>
      [] OTHER -> <<>>

FileReal(path) ==
    CASE path = "a.csv" -> <<0, 3, 1>>
      [] path = "b.csv" -> <<1, 0, 2>>
      [] path = "c.csv" -> <<0, 0, 5>>
      [] path = "d.csv" -> <<4>>
      [] OTHER -> <<>>

FileImag(path) ==
    CASE path = "b.csv" -> <<0, 1, 0>>
      [] path \in {"a.csv", "c.csv"} -> <<0, 0, 0>>
      [] path = "d.csv" -> <<0>>
      [] OTHER -> <<>>

\* load_data: the DataFrame with columns time, real, imag, complex, or an exception
Raised(e) == [raised |-> e]
IsRaised(v) == "raised" \in DOMAIN v
\* the value a call returns when it does not raise
Ok(v) == [value |-> v]

load_data(filepath) ==
    IF filepath \in Unreadable \/ filepath \notin Paths
    THEN Raised("Exception")
    ELSE [time |-> FileTime(filepath),
          real |-> FileReal(filepath),
          imag |-> FileImag(filepath),
          complex |-> [k \in 1..Len(FileReal(filepath)) |->
                          <<FileReal(filepath)[k], FileImag(filepath)[k]>>]]

\* os.path.splitext(os.path.basename(path))[0]
Stem(path) ==
    CASE path = "a.csv" -> "a"
      [] path = "b.csv" -> "b"
      [] path = "c.csv" -> "c"
      [] path = "d.csv" -> "d"
      [] path = "bad.csv" -> "bad"
      [] OTHER -> path

----------------------------------------------------------------------------
(* DataManager *)

\* atol of _time_axis_matches_reference, in units of 1e-12 ps
Atol == 1

\* allclose with the tolerance one unit too wide
allclose_loose(t_ref, t_new, atol) ==
    \A k \in 1..Len(t_ref) : Abs(t_ref[k] - t_new[k]) <= atol + 1

\* np.allclose(t_ref, t_new, rtol=0.0, atol=atol)
allclose(t_ref, t_new, atol) ==
    \A k \in 1..Len(t_ref) : Abs(t_ref[k] - t_new[k]) <= atol

_time_axis_matches_reference(dss, df_new) ==
    IF dss = <<>> THEN TRUE
    ELSE LET t_ref == dss[1].df.time
             t_new == df_new.time
         IN  IF Len(t_ref) # Len(t_new) THEN FALSE
             ELSE allclose(t_ref, t_new, Atol)

MismatchReason == "Time axis mismatch (does not match first dataset)"

NewDataset(path, df) ==
    [name |-> Stem(path), path |-> path, df |-> df, results |-> EmptyDict]

\* load_files whose loop ends at the first mismatching candidate
RECURSIVE LoadLoop_break(_, _, _, _)
LoadLoop_break(dss, skipped, file_paths, k) ==
    IF k > Len(file_paths)
    THEN [datasets |-> dss, skipped |-> skipped, raised |-> None]
    ELSE LET path == file_paths[k]
             df == load_data(path)
         IN  IF IsRaised(df)
             THEN LoadLoop_break(dss, skipped, file_paths, k + 1)
             ELSE IF ~ _time_axis_matches_reference(dss, df)
             THEN [datasets |-> dss,
                   skipped |-> Append(skipped, <<path, MismatchReason>>),
                   raised |-> None]
             ELSE LoadLoop_break(Append(dss, NewDataset(path, df)), skipped,
                                 file_paths, k + 1)

\* load_files without the try: the exception of load_data leaves the loop
RECURSIVE LoadLoop_propagate(_, _, _, _)
LoadLoop_propagate(dss, skipped, file_paths, k) ==
    IF k > Len(file_paths)
    THEN [datasets |-> dss, skipped |-> skipped, raised |-> None]
    ELSE LET path == file_paths[k]
             df == load_data(path)
         IN  IF IsRaised(df)
             THEN [datasets |-> dss, skipped |-> skipped, raised |-> df.raised]
             ELSE IF ~ _time_axis_matches_reference(dss, df)
             THEN LoadLoop_propagate(dss, Append(skipped, <<path, MismatchReason>>),
                                     file_paths, k + 1)
             ELSE LoadLoop_propagate(Append(dss, NewDataset(path, df)), skipped,
                                     file_paths, k + 1)

\* load_files that puts an accepted dataset in front of the list
RECURSIVE LoadLoop_prepend(_, _, _, _)
LoadLoop_prepend(dss, skipped, file_paths, k) ==
    IF k > Len(file_paths)
    THEN [datasets |-> dss, skipped |-> skipped, raised |-> None]
    ELSE LET path == file_paths[k]
             df == load_data(path)
         IN  IF IsRaised(df)
             THEN LoadLoop_prepend(dss, skipped, file_paths, k + 1)
             ELSE IF ~ _time_axis_matches_reference(dss, df)
             THEN LoadLoop_prepend(dss, Append(skipped, <<path, MismatchReason>>),
                                   file_paths, k + 1)
             ELSE LoadLoop_prepend(<<NewDataset(path, df)>> \o dss, skipped,
                                   file_paths, k + 1)

\* the for loop of load_files over file_paths[k..], from the list dss and
\* the skip list skipped; the result is the final list, the skip list and
\* the exception that leaves the loop (None: the except clause catches all)
RECURSIVE LoadLoop(_, _, _, _)
LoadLoop(dss, skipped, file_paths, k) ==
    IF k > Len(file_paths)
    THEN [datasets |-> dss, skipped |-> skipped, raised |-> None]
    ELSE LET path == file_paths[k]
             df == load_data(path)
         IN  IF IsRaised(df)
             THEN LoadLoop(dss, skipped, file_paths, k + 1)
             ELSE IF ~ _time_axis_matches_reference(dss, df)
             THEN LoadLoop(dss, Append(skipped, <<path, MismatchReason>>),
                           file_paths, k + 1)
             ELSE LoadLoop(Append(dss, NewDataset(path, df)), skipped,
                           file_paths, k + 1)

LoadResult(dss, file_paths) == LoadLoop(dss, <<>>, file_paths, 1)

\* load_files that hands every dataset a fresh results dict
load_files_resets_results(file_paths) ==
    LET r == LoadResult(datasets, file_paths)
    IN  /\ datasets' = [i \in 1..Len(r.datasets) |->
                          [r.datasets[i] EXCEPT !.results = EmptyDict]]
        /\ op' = [name |-> "load_files", file_paths |-> file_paths,
                  ret |-> r.skipped, raised |-> r.raised]
        /\ UNCHANGED <<reference_path, freqVars, phaseVars>>

load_files(file_paths) ==
    LET r == LoadResult(datasets, file_paths)
    IN  /\ datasets' = r.datasets
        /\ op' = [name |-> "load_files", file_paths |-> file_paths,
                  ret |-> r.skipped, raised |-> r.raised]
        /\ UNCHANGED <<reference_path, freqVars, phaseVars>>

\* set_reference that drops the results derived with the old reference
set_reference_invalidates(path) ==
    /\ reference_path' = path
    /\ datasets' = [i \in 1..Len(datasets) |->
                      [datasets[i] EXCEPT !.results = Pop(@, "fft_normalized")]]
    /\ op' = [name |-> "set_reference", path |-> path, raised |-> None]
    /\ UNCHANGED <<freqVars, phaseVars>>

set_reference(path) ==
    /\ reference_path' = path
    /\ op' = [name |-> "set_reference", path |-> path, raised |-> None]
    /\ UNCHANGED <<datasets, freqVars, phaseVars>>

\* get_reference that returns the first dataset whatever its path
FindByPath_any(dss, path, k) ==
    IF k > Len(dss) THEN NoneObj ELSE dss[k]

\* the loop of get_reference over dss[k..]
RECURSIVE FindByPath(_, _, _)
FindByPath(dss, path, k) ==
    IF k > Len(dss) THEN NoneObj
    ELSE IF dss[k].path = path THEN dss[k]
    ELSE FindByPath(dss, path, k + 1)

GetReference(dss, ref) ==
    IF Falsy(ref) THEN NoneObj ELSE FindByPath(dss, ref, 1)

get_reference ==
    /\ op' = [name |-> "get_reference",
              ret |-> GetReference(datasets, reference_path), raised |-> None]
    /\ UNCHANGED <<storeVars, freqVars, phaseVars>>

get_all ==
    /\ op' = [name |-> "get_all", ret |-> datasets, raised |-> None]
    /\ UNCHANGED <<storeVars, freqVars, phaseVars>>

\* clear that forgets to reset the reference
clear_keeps_reference ==
    /\ datasets' = <<>>
    /\ op' = [name |-> "clear", raised |-> None,
              dropped |-> Len(datasets), had_reference |-> reference_path]
    /\ UNCHANGED <<reference_path, freqVars, phaseVars>>

\* op.dropped, op.had_reference: what the store held when clear was called
clear ==
    /\ datasets' = <<>>
    /\ reference_path' = None
    /\ op' = [name |-> "clear", raised |-> None,
              dropped |-> Len(datasets), had_reference |-> reference_path]
    /\ UNCHANGED <<freqVars, phaseVars>>

----------------------------------------------------------------------------
(* core/processing.py, as far as the results cache needs it.  A spectrum is *)
(* kept as the term it was computed from: the signal and the window that    *)
(* was applied to it.                                                       *)

Max(a, b) == IF a >= b THEN a ELSE b
Min(a, b) == IF a <= b THEN a ELSE b

\* the index clamping of apply_window; stop_idx = None means len(x)
ClampStart(start_idx) == Max(0, start_idx)
ClampStop(n, start_idx, stop_idx) ==
    LET stop0 == IF stop_idx = NoIdx THEN n ELSE stop_idx[1]
        stop1 == Min(n, stop0)
    IN  IF stop1 < ClampStart(start_idx) THEN ClampStart(start_idx) ELSE stop1

\* the keyword parameters a function accepts; any other keyword is a TypeError
ComputeFftParams == {"window_type", "window_args", "start_idx", "stop_idx"}
ApplyWindowParams == {"window_type", "window_args", "start_idx", "stop_idx",
                      "zero_outside_window"}

\* Window values are counted in hundredths, and so is a windowed signal: a
\* sample <<re, im>> times the window value w is <<re * w, im * w>>, and a
\* sample that is copied is the sample times One.
One == 100
Times(z, w) == <<z[1] * w, z[2] * w>>
Zero == <<0, 0>>

\* np.ones(n)
Ones(n) == [k \in 1..n |-> One]

\* the names scipy.signal.get_window knows, of those the pages offer, and the
\* number of parameters each takes after its length
ScipyWindows == {"hann", "hamming", "blackman", "tukey"}
ScipyMaxArgs(name) == IF name = "tukey" THEN 1 ELSE 0

\* the periodic (fftbins) window of length n <= 4, in hundredths; a window
\* of length 1 is <<1.0>> for every name; tukey with 0 < alpha <= 0.5 has
\* no taper sample other than the first at these lengths
ScipyValues(name, args, n) ==
    LET alpha == IF args = <<>> THEN 50 ELSE args[1]
        shape == IF name = "tukey"
                 THEN IF alpha <= 0 THEN "ones"
                      ELSE IF alpha >= 100 THEN "hann"
                      ELSE "tukey"
                 ELSE name
    IN  IF n <= 1 \/ shape = "ones" THEN Ones(n)
        ELSE IF shape = "hann"
        THEN (CASE n = 2 -> <<0, 100>>
                [] n = 3 -> <<0, 75, 75>>
                [] n = 4 -> <<0, 50, 100, 50>>)
        ELSE IF shape = "hamming"
        THEN (CASE n = 2 -> <<8, 100>>
                [] n = 3 -> <<8, 77, 77>>
                [] n = 4 -> <<8, 54, 100, 54>>)
        ELSE IF shape = "blackman"
        THEN (CASE n = 2 -> <<0, 100>>
                [] n = 3 -> <<0, 63, 63>>
                [] n = 4 -> <<0, 34, 100, 34>>)
        ELSE [k \in 1..n |-> IF k = 1 THEN 0 ELSE One]

\* signal.get_window(win_spec, window_len): an unknown name is a ValueError,
\* more parameters than the window function takes are a TypeError
get_window(name, args, n) ==
    IF name \notin ScipyWindows THEN Raised("ValueError")
    ELSE IF Len(args) > ScipyMaxArgs(name) THEN Raised("TypeError")
    ELSE Ok(ScipyValues(name, args, n))

\* apply_window that passes the samples outside the region through whatever
\* zero_outside_window says
apply_window_keeps_outside(t, x, wtype, wargs, start_idx, stop_idx, zero_outside_window) ==
    LET s0 == ClampStart(start_idx)
        s1 == ClampStop(Len(x), start_idx, stop_idx)
        window_len == s1 - s0
        w == IF wtype = "None" THEN Ok(Ones(window_len))
             ELSE get_window(wtype, wargs, window_len)
        inside(k) == s0 < k /\ k <= s1
    IN  IF window_len = 0
        THEN Ok([xw |-> [k \in 1..Len(x) |-> Times(x[k], One)], w |-> <<>>,
                 start_idx |-> s0, stop_idx |-> s1])
        ELSE IF IsRaised(w) THEN w
        ELSE Ok([xw |-> [k \in 1..Len(x) |->
                           IF inside(k) THEN Times(x[k], w.value[k - s0])
                           ELSE Times(x[k], One)],
                 w |-> w.value, start_idx |-> s0, stop_idx |-> s1])

\* apply_window that hands the name "None" to get_window like any other
apply_window_none_to_scipy(t, x, wtype, wargs, start_idx, stop_idx, zero_outside_window) ==
    LET s0 == ClampStart(start_idx)
        s1 == ClampStop(Len(x), start_idx, stop_idx)
        window_len == s1 - s0
        w == get_window(wtype, wargs, window_len)
        inside(k) == s0 < k /\ k <= s1
    IN  IF window_len = 0
        THEN Ok([xw |-> [k \in 1..Len(x) |-> Times(x[k], One)], w |-> <<>>,
                 start_idx |-> s0, stop_idx |-> s1])
        ELSE IF IsRaised(w) THEN w
        ELSE Ok([xw |-> [k \in 1..Len(x) |->
                           IF inside(k) THEN Times(x[k], w.value[k - s0])
                           ELSE IF zero_outside_window THEN Zero
                           ELSE Times(x[k], One)],
                 w |-> w.value, start_idx |-> s0, stop_idx |-> s1])

\* apply_window; window_args = None is passed as the empty list, which lines
\* 41 and 93 make of it
apply_window(t, x, wtype, wargs, start_idx, stop_idx, zero_outside_window) ==
    LET s0 == ClampStart(start_idx)
        s1 == ClampStop(Len(x), start_idx, stop_idx)
        window_len == s1 - s0
        w == IF wtype = "None" THEN Ok(Ones(window_len))
             ELSE get_window(wtype, wargs, window_len)
        inside(k) == s0 < k /\ k <= s1
    IN  IF window_len = 0
        THEN Ok([xw |-> [k \in 1..Len(x) |-> Times(x[k], One)], w |-> <<>>,
                 start_idx |-> s0, stop_idx |-> s1])
        ELSE IF IsRaised(w) THEN w
        ELSE Ok([xw |-> [k \in 1..Len(x) |->
                           IF inside(k) THEN Times(x[k], w.value[k - s0])
                           ELSE IF zero_outside_window THEN Zero
                           ELSE Times(x[k], One)],
                 w |-> w.value, start_idx |-> s0, stop_idx |-> s1])

\* np.abs(z) ** 2 of a complex sample
AbsSq(z) == z[1] * z[1] + z[2] * z[2]

\* np.argmax(np.abs(xw)): the first index of the largest modulus (from 1)
ArgMaxAbs(xw) ==
    CHOOSE k \in 1..Len(xw) :
        /\ \A j \in 1..Len(xw) : AbsSq(xw[j]) <= AbsSq(xw[k])
        /\ \A j \in 1..(k - 1) : AbsSq(xw[j]) < AbsSq(xw[k])

\* float("nan")
NaN == "nan"

\* compute_fft.  The transform itself is kept as a term: the signal, the
\* window applied to it and the number of bins kept.
compute_fft(t, x, wtype, wargs, start_idx, stop_idx) ==
    LET win == apply_window(t, x, wtype, wargs, start_idx, stop_idx, TRUE)
        xw == win.value.xw
        meta == [type |-> wtype, args |-> wargs,
                 start_idx |-> win.value.start_idx,
                 stop_idx |-> win.value.stop_idx]
        half == Len(xw) \div 2
    IN  IF IsRaised(win) THEN win
        ELSE IF Len(t) < 2 THEN Raised("IndexError")    \* dt = t[1] - t[0]
        ELSE [Freqs |-> [k \in 1..half |-> <<k - 1, Len(xw) * (t[2] - t[1])>>],
              FFT |-> [fft_of |-> x, window |-> meta, bins |-> half],
              t_peak_ps |-> IF Len(xw) > 0 THEN t[ArgMaxAbs(xw)] ELSE NaN,
              window |-> meta]

normalize_fft(fft, ref_fft) ==
    [Freqs |-> fft.Freqs, FFT |-> [num |-> fft.FFT, den |-> ref_fft.FFT]]

----------------------------------------------------------------------------
(* Phase unwrapping.  Angles are integers counted in eighths of a turn     *)
(* (Turn = 2 pi); frequencies are whole THz and peak times are counted in  *)
(* eighths of a ps, so that 2 pi f t is f * t of these units.  A complex   *)
(* value is kept in polar form [mag, ang], mag in hundredths and ang the   *)
(* principal argument; a fitted intercept is the fraction num / den.       *)

Turn == 8
HalfTurn == Turn \div 2

\* the principal argument np.angle gives an angle: in (-pi, pi]
Wrap(a) == HalfTurn - ((HalfTurn - a) % Turn)

\* np.unwrap without the rule that keeps a step of exactly +pi
RECURSIVE UnwrapFrom_folds_half_turn(_, _, _, _)
UnwrapFrom_folds_half_turn(p, k, correction, up) ==
    IF k > Len(p) THEN up
    ELSE LET dd == p[k] - p[k - 1]
             ddmod == ((dd + HalfTurn) % Turn) - HalfTurn
             ph_correct == IF Abs(dd) < HalfTurn THEN 0 ELSE ddmod - dd
         IN  UnwrapFrom_folds_half_turn(p, k + 1, correction + ph_correct,
                                        Append(up, p[k] + correction + ph_correct))

\* np.unwrap(p)[k..] from the correction summed so far and the samples
\* already unwrapped
RECURSIVE UnwrapFrom(_, _, _, _)
UnwrapFrom(p, k, correction, up) ==
    IF k > Len(p) THEN up
    ELSE LET dd == p[k] - p[k - 1]
             ddmod0 == ((dd + HalfTurn) % Turn) - HalfTurn
             ddmod == IF ddmod0 = 0 - HalfTurn /\ dd > 0 THEN HalfTurn ELSE ddmod0
             ph_correct == IF Abs(dd) < HalfTurn THEN 0 ELSE ddmod - dd
         IN  UnwrapFrom(p, k + 1, correction + ph_correct,
                        Append(up, p[k] + correction + ph_correct))

np_unwrap(p) == IF p = <<>> THEN <<>> ELSE UnwrapFrom(p, 2, 0, <<p[1]>>)

\* unwrap_phase; the key "Unwrapped Phase"
unwrap_phase(phase_wrapped) == [Unwrapped_Phase |-> np_unwrap(phase_wrapped)]

RECURSIVE SumSeq(_)
SumSeq(q) == IF q = <<>> THEN 0 ELSE q[1] + SumSeq(Tail(q))

\* np.rint(num / den) for den > 0: the nearest integer, the even one of two
rint(num, den) ==
    LET q == num \div den
        r == num - q * den
    IN  IF 2 * r < den THEN q
        ELSE IF 2 * r > den THEN q + 1
        ELSE IF q % 2 = 0 THEN q ELSE q + 1

\* the intercept B of np.polyfit(w[fit_mask], y[fit_mask], 1) as a fraction;
\* scaling the abscissa (w = 2 pi f) leaves the intercept as it is
polyfit_intercept(f, y, fit_mask) ==
    LET sel(v) == [k \in 1..Len(f) |-> IF fit_mask[k] THEN v[k] ELSE 0]
        n == Cardinality({k \in 1..Len(f) : fit_mask[k]})
        Sx == SumSeq(sel(f))
        Sy == SumSeq(sel(y))
        Sxx == SumSeq(sel([k \in 1..Len(f) |-> f[k] * f[k]]))
        Sxy == SumSeq(sel([k \in 1..Len(f) |-> f[k] * y[k]]))
    IN  [num |-> Sy * Sxx - Sx * Sxy, den |-> n * Sxx - Sx * Sx]

\* the largest of a non-empty sequence of magnitudes
MaxOf(q) == CHOOSE m \in {q[k] : k \in 1..Len(q)} : \A k \in 1..Len(q) : q[k] <= m

\* fit_mask = None
NoMask == <<"None">>

\* the reduced phase with the ramp added to the measured phase
phi_red_of_adds_ramp(T_complex, phi0_diff) ==
    [k \in 1..Len(T_complex) |-> Wrap(T_complex[k].ang + phi0_diff[k])]

\* phi_red = np.angle(T_complex * np.exp(-1j*phi0_diff))
phi_red_of(T_complex, phi0_diff) ==
    [k \in 1..Len(T_complex) |-> Wrap(T_complex[k].ang - phi0_diff[k])]

\* the fit started from five bins on
FitIsRun_from_five(mask) ==
    Cardinality({k \in 1..Len(mask) : mask[k]}) >= 5

\* np.count_nonzero(fit_mask) > 5
FitIsRun(mask) ==
    Cardinality({k \in 1..Len(mask) : mask[k]}) > 5

\* the full phase put together from the uncorrected reduced phase
dphi_full_of_uncorrected(dphi0_star, dphi0, phi0_diff) ==
    [k \in 1..Len(dphi0) |-> dphi0_star[k] + phi0_diff[k]]

\* dphi_full = dphi0 + phi0_diff
dphi_full_of(dphi0_star, dphi0, phi0_diff) ==
    [k \in 1..Len(dphi0) |-> dphi0[k] + phi0_diff[k]]

\* unwrap_phase_informed; mag_threshold is counted in hundredths
unwrap_phase_informed(freqs_thz, T_complex, t0_sam_ps, t0_ref_ps, fit_mask, mag_threshold) ==
    LET n == Len(freqs_thz)
        phi0_diff == [k \in 1..n |-> freqs_thz[k] * (t0_sam_ps - t0_ref_ps)]
        phi_red == phi_red_of(T_complex, phi0_diff)
        dphi0_star == np_unwrap(phi_red)
        mag == [k \in 1..n |-> T_complex[k].mag]
        mask == IF fit_mask = NoMask
                THEN [k \in 1..n |-> /\ freqs_thz[k] > 0
                                     /\ 100 * mag[k] > mag_threshold * MaxOf(mag)]
                ELSE fit_mask
        B == IF FitIsRun(mask)
             THEN polyfit_intercept(freqs_thz, dphi0_star, mask)
             ELSE [num |-> 0, den |-> 1]
        dphi0 == [k \in 1..n |-> dphi0_star[k] - Turn * rint(B.num, B.den * Turn)]
        dphi_full == dphi_full_of(dphi0_star, dphi0, phi0_diff)
    IN  \* the keys "Unwrapped Phase" and "Reduced Unwrapped Phase"
        [Unwrapped_Phase |-> dphi_full,
         Reduced_Unwrapped_Phase |-> dphi0,
         Method |-> "Informed",
         t0_sam_ps |-> t0_sam_ps,
         t0_ref_ps |-> t0_ref_ps,
         fit_intercept_B |-> B]

----------------------------------------------------------------------------
(* The values of a normalized spectrum *)

\* The values of normalize_fft.  A bin is a complex double: 0, or
\* 10^e * exp(i ang) with ang in eighths of a turn, or an infinity; the
\* rounding of the mantissa is left out.  The floor 1e-12 is 10^FloorExp,
\* the largest double is below 10^(MaxExp + 1) and a quotient below
\* 10^MinExp rounds to 0.
FloorExp == 0 - 12
MaxExp == 308
MinExp == 0 - 323
ZeroBin == [kind |-> "zero", e |-> 0, ang |-> 0]
InfBin == [kind |-> "inf", e |-> 0, ang |-> 0]
Bin(e, ang) == [kind |-> "finite", e |-> e, ang |-> ang]
\* floor + 0j
FloorBin == Bin(FloorExp, 0)

\* np.abs(z) < floor
BelowFloor(z) == z.kind = "zero" \/ (z.kind = "finite" /\ z.e < FloorExp)

\* the reference used as it is, without the floor
X_ref_safe_unfloored(X_ref) == X_ref

\* np.where(np.abs(X_ref) < floor, floor + 0j, X_ref)
X_ref_safe(X_ref) ==
    [k \in 1..Len(X_ref) |-> IF BelowFloor(X_ref[k]) THEN FloorBin ELSE X_ref[k]]

\* z / d of two finite doubles, d not 0: the quotient overflows to an
\* infinity above the largest double and underflows to 0
Divide(z, d) ==
    IF z.kind = "zero" THEN ZeroBin
    ELSE IF z.e - d.e > MaxExp THEN InfBin
    ELSE IF z.e - d.e < MinExp THEN ZeroBin
    ELSE Bin(z.e - d.e, Wrap(z.ang - d.ang))

\* normalize_fft on the values X = fft["FFT"] and X_ref = ref_fft["FFT"]
normalize_fft_values(X, X_ref) ==
    [k \in 1..Len(X) |-> Divide(X[k], X_ref_safe(X_ref)[k])]

----------------------------------------------------------------------------
(* FrequencyPage *)

WINDOW_CHOICES == {"None", "hann", "hamming", "blackman", "tukey"}

\* WINDOW_SPECS[w]["nargs"] and ["defaults"]; alpha is counted in hundredths
WindowNargs(w) == IF w = "tukey" THEN 1 ELSE 0
WindowDefaults(w) == IF w = "tukey" THEN <<50>> ELSE <<>>

\* float(text) of a time entry, in units of 1e-12 ps
ParseTime(text) ==
    CASE text = "1e-11" -> Ok(10)
      [] text = "2e-11" -> Ok(20)
      [] OTHER -> Raised("ValueError")

\* raw.split(",") with blank parts dropped
SplitArgs(raw) ==
    CASE raw = "0.25" -> <<"0.25">>
      [] raw = "1,2" -> <<"1", "2">>
      [] raw = "x" -> <<"x">>
      [] OTHER -> <<>>

\* float(p) of a window argument, in hundredths
ParseArg(p) ==
    CASE p = "0.25" -> Ok(25)
      [] p = "1" -> Ok(100)
      [] p = "2" -> Ok(200)
      [] OTHER -> Raised("ValueError")

\* np.searchsorted(t, t_ps, side) clamped to [0, len(t)]
_snap_time_to_index(t, t_ps, side) ==
    LET idx == IF side = "left"
               THEN Cardinality({k \in 1..Len(t) : t[k] < t_ps})
               ELSE Cardinality({k \in 1..Len(t) : t[k] <= t_ps})
    IN  Max(0, Min(Len(t), idx))

\* the pair (start_idx, stop_idx), or the ValueError of float()
_parse_window_indices(dss, start_txt, stop_txt) ==
    LET t_ref == dss[1].df.time
        start == ParseTime(start_txt)
        stop == ParseTime(stop_txt)
    IN  IF start_txt # "" /\ IsRaised(start) THEN Raised("ValueError")
        ELSE IF stop_txt # "" /\ IsRaised(stop) THEN Raised("ValueError")
        ELSE [start_idx |-> IF start_txt # ""
                            THEN _snap_time_to_index(t_ref, start.value, "left")
                            ELSE 0,
              stop_idx |-> IF stop_txt # ""
                           THEN Some(_snap_time_to_index(t_ref, stop.value, "right"))
                           ELSE NoIdx]

\* the labels _parse_window_indices sets when it succeeds
IdxText(dss, idx) ==
    <<"Start idx: " \o ToString(idx.start_idx),
      "Stop idx: " \o ToString(IF idx.stop_idx = NoIdx
                               THEN Len(dss[1].df.time) ELSE idx.stop_idx[1])>>

InvalidIdxText == <<"Start idx: (invalid time)", "Stop idx: (invalid time)">>

_parse_window_args(wtype, raw) ==
    LET parts == SplitArgs(raw)
    IN  IF WindowNargs(wtype) = 0 THEN Ok(<<>>)
        ELSE IF raw = "" THEN Ok(WindowDefaults(wtype))
        ELSE IF Len(parts) # WindowNargs(wtype) THEN Raised("ValueError")
        ELSE IF \E k \in 1..Len(parts) : IsRaised(ParseArg(parts[k]))
             THEN Raised("ValueError")
        ELSE Ok([k \in 1..Len(parts) |-> ParseArg(parts[k]).value])

\* on_compute_fft that passes the defaults on whatever was typed
WindowArgsUsed_defaults(wtype, raw) == WindowDefaults(wtype)

\* the window arguments on_compute_fft passes on: the defaults when parsing fails
WindowArgsUsed(wtype, raw) ==
    IF IsRaised(_parse_window_args(wtype, raw))
    THEN WindowDefaults(wtype)
    ELSE _parse_window_args(wtype, raw).value

\* the spectra render_view plots with the plot type "Magnitude" and the
\* preview off: those of the datasets before the first that has none, where
\* it writes "Press 'Compute FFT'" and returns
RECURSIVE Plotted(_, _)
Plotted(dss, k) ==
    IF k > Len(dss) \/ ~ Has(dss[k].results, "fft") THEN <<>>
    ELSE <<dss[k].results["fft"]>> \o Plotted(dss, k + 1)

\* what a redraw of the Frequency page leaves: the labels and the plot
Redraw(dss, start_txt, stop_txt) ==
    IF dss = <<>> THEN [labels |-> <<>>, plotted |-> <<>>]
    ELSE IF IsRaised(_parse_window_indices(dss, start_txt, stop_txt))
    THEN [labels |-> InvalidIdxText, plotted |-> <<>>]
    ELSE [labels |-> IdxText(dss, _parse_window_indices(dss, start_txt, stop_txt)),
          plotted |-> Plotted(dss, 1)]

\* the first loop that leaves the cached phase in place
FftStep_keeps_phase(ds, wtype, wargs, idx) ==
    LET spec == compute_fft(ds.df.time, ds.df.complex, wtype, wargs,
                            idx.start_idx, idx.stop_idx)
    IN  Pop(Put(ds.results, "fft", spec), "fft_normalized")

\* the first loop that leaves the cached normalized spectrum in place
FftStep_keeps_normalized(ds, wtype, wargs, idx) ==
    LET spec == compute_fft(ds.df.time, ds.df.complex, wtype, wargs,
                            idx.start_idx, idx.stop_idx)
    IN  Pop(Put(ds.results, "fft", spec), "phase")

\* the first loop of on_compute_fft: the new results dict of one dataset
FftStep(ds, wtype, wargs, idx) ==
    LET spec == compute_fft(ds.df.time, ds.df.complex, wtype, wargs,
                            idx.start_idx, idx.stop_idx)
    IN  Pop(Pop(Put(ds.results, "fft", spec), "phase"), "fft_normalized")

\* the second loop that leaves the reference itself out
NormalizeAll_skips_reference(dss, ref) ==
    LET ref_ds == GetReference(dss, ref)
    IN  IF ref_ds # NoneObj /\ Has(ref_ds.results, "fft")
        THEN [i \in 1..Len(dss) |->
                IF dss[i].path = ref THEN dss[i]
                ELSE [dss[i] EXCEPT !.results =
                        Put(@, "fft_normalized",
                            normalize_fft(dss[i].results["fft"], ref_ds.results["fft"]))]]
        ELSE dss

\* the second loop of on_compute_fft
NormalizeAll(dss, ref) ==
    LET ref_ds == GetReference(dss, ref)
    IN  IF ref_ds # NoneObj /\ Has(ref_ds.results, "fft")
        THEN [i \in 1..Len(dss) |->
                [dss[i] EXCEPT !.results =
                    Put(@, "fft_normalized",
                        normalize_fft(dss[i].results["fft"], ref_ds.results["fft"]))]]
        ELSE dss

\* on_compute_fft over an apply_window that windows the stored signal in
\* place instead of a copy of it
on_compute_fft_in_place ==
    LET idx == _parse_window_indices(datasets, start_time_ps, stop_time_ps)
        wargs == WindowArgsUsed(window_type, window_args_text)
        raises == \E i \in 1..Len(datasets) :
                     IsRaised(compute_fft(datasets[i].df.time, datasets[i].df.complex,
                                          window_type, wargs, idx.start_idx, idx.stop_idx))
        computed == [i \in 1..Len(datasets) |->
                        [datasets[i] EXCEPT
                            !.results = FftStep(datasets[i], window_type, wargs, idx),
                            !.df.complex =
                                apply_window(datasets[i].df.time, @, window_type,
                                             wargs, idx.start_idx, idx.stop_idx,
                                             TRUE).value.xw]]
    IN  IF datasets = <<>> \/ IsRaised(idx)
        THEN /\ op' = [name |-> "on_compute_fft", ran |-> FALSE, raised |-> None,
                       shown |-> Redraw(datasets, start_time_ps, stop_time_ps)]
             /\ UNCHANGED <<storeVars, freqVars, phaseVars>>
        ELSE IF raises
        THEN \* the datasets share the length of their axis and the window:
             \* the first compute_fft raises (an axis too short for
             \* dt = t[1] - t[0]) before anything is written or redrawn
             /\ op' = [name |-> "on_compute_fft", ran |-> FALSE,
                       raised |-> compute_fft(datasets[1].df.time,
                                              datasets[1].df.complex, window_type,
                                              wargs, idx.start_idx, idx.stop_idx).raised,
                       shown |-> [labels |-> IdxText(datasets, idx),
                                  plotted |-> <<>>]]
             /\ UNCHANGED <<storeVars, freqVars, phaseVars>>
        ELSE /\ datasets' = NormalizeAll(computed, reference_path)
             /\ op' = [name |-> "on_compute_fft", ran |-> TRUE, raised |-> None,
                       shown |-> Redraw(NormalizeAll(computed, reference_path),
                                        start_time_ps, stop_time_ps),
                       had_phase |-> {i \in 1..Len(datasets) :
                                        Has(datasets[i].results, "phase")}]
             /\ UNCHANGED <<reference_path, freqVars, phaseVars>>

\* op.ran: the two loops ran to their end; op.shown: the labels and the plot
\* of the redraw that ends the handler; op.had_phase: the datasets that had a
\* cached phase when the handler was called
on_compute_fft ==
    LET idx == _parse_window_indices(datasets, start_time_ps, stop_time_ps)
        wargs == WindowArgsUsed(window_type, window_args_text)
        raises == \E i \in 1..Len(datasets) :
                     IsRaised(compute_fft(datasets[i].df.time, datasets[i].df.complex,
                                          window_type, wargs, idx.start_idx, idx.stop_idx))
        computed == [i \in 1..Len(datasets) |->
                        [datasets[i] EXCEPT !.results =
                            FftStep(datasets[i], window_type, wargs, idx)]]
    IN  IF datasets = <<>> \/ IsRaised(idx)
        THEN /\ op' = [name |-> "on_compute_fft", ran |-> FALSE, raised |-> None,
                       shown |-> Redraw(datasets, start_time_ps, stop_time_ps)]
             /\ UNCHANGED <<storeVars, freqVars, phaseVars>>
        ELSE IF raises
        THEN \* the datasets share the length of their axis and the window:
             \* the first compute_fft raises (an axis too short for
             \* dt = t[1] - t[0]) before anything is written or redrawn
             /\ op' = [name |-> "on_compute_fft", ran |-> FALSE,
                       raised |-> compute_fft(datasets[1].df.time,
                                              datasets[1].df.complex, window_type,
                                              wargs, idx.start_idx, idx.stop_idx).raised,
                       shown |-> [labels |-> IdxText(datasets, idx),
                                  plotted |-> <<>>]]
             /\ UNCHANGED <<storeVars, freqVars, phaseVars>>
        ELSE /\ datasets' = NormalizeAll(computed, reference_path)
             /\ op' = [name |-> "on_compute_fft", ran |-> TRUE, raised |-> None,
                       shown |-> Redraw(NormalizeAll(computed, reference_path),
                                        start_time_ps, stop_time_ps),
                       had_phase |-> {i \in 1..Len(datasets) :
                                        Has(datasets[i].results, "phase")}]
             /\ UNCHANGED <<reference_path, freqVars, phaseVars>>

\* FrequencyPage.render_view, through app.refresh_view: of the state kept
\* here it reads the cache and sets the labels
FrequencyRenderView ==
    /\ op' = [name |-> "FrequencyPage.render_view", raised |-> None,
              shown |-> Redraw(datasets, start_time_ps, stop_time_ps)]
    /\ UNCHANGED <<storeVars, freqVars, phaseVars>>

\* the window combobox: <<ComboboxSelected>> redraws the view
SelectWindowType(w) ==
    /\ window_type' = w
    /\ op' = [name |-> "select_window_type", raised |-> None,
              shown |-> Redraw(datasets, start_time_ps, stop_time_ps)]
    /\ UNCHANGED <<storeVars, window_args_text, start_time_ps, stop_time_ps, phaseVars>>

\* typing into an Entry changes its StringVar and nothing else
TypeWindowArgs(text) ==
    /\ window_args_text' = text
    /\ op' = [name |-> "type_window_args", raised |-> None]
    /\ UNCHANGED <<storeVars, window_type, start_time_ps, stop_time_ps, phaseVars>>

TypeStartTime(text) ==
    /\ start_time_ps' = text
    /\ op' = [name |-> "type_start_time", raised |-> None]
    /\ UNCHANGED <<storeVars, window_type, window_args_text, stop_time_ps, phaseVars>>

TypeStopTime(text) ==
    /\ stop_time_ps' = text
    /\ op' = [name |-> "type_stop_time", raised |-> None]
    /\ UNCHANGED <<storeVars, window_type, window_args_text, start_time_ps, phaseVars>>

----------------------------------------------------------------------------
(* PhasePage *)

\* the entries of the Phase page are left blank
phase_start_time_ps == ""
phase_stop_time_ps == ""

\* the keywords PhasePage.render_view passes to apply_window and compute_fft
PhaseCallKeywords == {"window_type", "start_idx", "stop_idx", "tukey_alpha"}

\* render_view reaches apply_window (preview) or compute_fft (plot); both
\* calls pass tukey_alpha, so the assignment to results["fft"] that follows
\* compute_fft is reached only if compute_fft accepts the call
render_view_phase(preview) ==
    LET idx == _parse_window_indices(datasets, phase_start_time_ps, phase_stop_time_ps)
        accepted == IF preview THEN PhaseCallKeywords \subseteq ApplyWindowParams
                    ELSE PhaseCallKeywords \subseteq ComputeFftParams
        written == [i \in 1..Len(datasets) |->
                      [datasets[i] EXCEPT !.results =
                          Put(@, "fft",
                              compute_fft(datasets[i].df.time, datasets[i].df.complex,
                                          "None", <<>>, idx.start_idx, idx.stop_idx))]]
    IN  IF datasets = <<>>
        THEN /\ op' = [name |-> "PhasePage.render_view", preview |-> preview,
                       raised |-> None, labels |-> <<>>]
             /\ UNCHANGED <<storeVars, freqVars>>
        ELSE IF IsRaised(idx)
        THEN /\ op' = [name |-> "PhasePage.render_view", preview |-> preview,
                       raised |-> None, labels |-> InvalidIdxText]
             /\ UNCHANGED <<storeVars, freqVars>>
        ELSE IF ~ accepted
        THEN /\ op' = [name |-> "PhasePage.render_view", preview |-> preview,
                       raised |-> "TypeError", labels |-> IdxText(datasets, idx)]
             /\ UNCHANGED <<storeVars, freqVars>>
        ELSE /\ datasets' = IF preview THEN datasets ELSE written
             /\ op' = [name |-> "PhasePage.render_view", preview |-> preview,
                       raised |-> None, labels |-> IdxText(datasets, idx)]
             /\ UNCHANGED <<reference_path, freqVars>>

\* PhasePage.render_view, through app.refresh_view
PhaseRenderView(preview) == render_view_phase(preview) /\ UNCHANGED phaseVars

\* the entries of the unwrap combobox
UnwrapValues == {"Blind", "Informed (soon)"}

\* the unwrap combobox: the selection changes the StringVar and
\* <<ComboboxSelected>> redraws the view, which reads neither the method nor
\* a cached phase; preview is the state of the "window preview" checkbox
SelectUnwrapMethod(m, preview) ==
    /\ unwrap_method' = m
    /\ render_view_phase(preview)

----------------------------------------------------------------------------
(* The phase derivation that fills results["phase"], the entry that        *)
(* on_compute_fft removes.  No handler under src/ writes it; it follows    *)
(* the specification's state machine NoSpectrum -> HasSpectrum -> HasPhase.*)

Methods == {"Blind", "Informed"}

compute_phase_entry(i, method) ==
    /\ i \in 1..Len(datasets)
    /\ Has(datasets[i].results, "fft")
    /\ method = "Informed" =>
          /\ Has(datasets[i].results, "fft_normalized")
          /\ datasets[i].path # reference_path
    /\ datasets' = [datasets EXCEPT ![i].results =
                      Put(@, "phase",
                          [method |-> method,
                           of |-> IF method = "Informed"
                                  THEN datasets[i].results["fft_normalized"].FFT
                                  ELSE datasets[i].results["fft"].FFT])]
    /\ op' = [name |-> "compute_phase", raised |-> None]
    /\ UNCHANGED <<reference_path, freqVars, phaseVars>>

----------------------------------------------------------------------------
(* Specification of the store alone: any caller of the DataManager API *)

\* the lists of distinct paths a caller passes to load_files; a path is
\* loaded twice by two calls
Batches ==
    UNION {{b \in [1..n -> Paths] : \A i, j \in 1..n : b[i] = b[j] => i = j} :
             n \in 1..MaxBatch}

\* what a caller passes to set_reference: a path, stored or not, "" or None
RefValues == {"a.csv", "b.csv", "bad.csv", "", None}

Init ==
    /\ datasets = <<>>
    /\ reference_path = None
    /\ window_type = "None"
    /\ window_args_text = ""
    /\ start_time_ps = ""
    /\ stop_time_ps = ""
    /\ unwrap_method = "Blind"
    /\ op = [name |-> "__init__", raised |-> None]

\* the call keeps the store within cap datasets
Fits(file_paths, cap) == Len(LoadResult(datasets, file_paths).datasets) <= cap

LoadFiles ==
    \E file_paths \in Batches : Fits(file_paths, MaxDatasets) /\ load_files(file_paths)
SetReference == \E path \in RefValues : set_reference(path)
GetReferenceCall == get_reference
GetAll == get_all
Clear == clear

NextStore == LoadFiles \/ SetReference \/ GetReferenceCall \/ GetAll \/ Clear

SpecStore == Init /\ [][NextStore]_vars

----------------------------------------------------------------------------
(* Specification of the application: the store with the pages on top *)

\* the files loaded, the references chosen and the entries typed
PathsTried == {"a.csv", "b.csv", "d.csv"}
RefsTried == {"b.csv", "bad.csv"}
ArgTexts == {"", "0.25"}
StartTexts == {"", "1e-11", "abc"}
WindowsTried == {"None", "tukey"}
MethodsTried == {"Blind"}

LoadOne == \E path \in PathsTried : Fits(<<path>>, MaxLoaded) /\ load_files(<<path>>)
ChooseReference == \E path \in RefsTried : set_reference(path)
SelectWindow == \E w \in WindowsTried : SelectWindowType(w)
TypeArgs == \E text \in ArgTexts : TypeWindowArgs(text)
TypeStart == \E text \in StartTexts : TypeStartTime(text)
OnComputeFft == on_compute_fft
PhaseRender == \E preview \in BOOLEAN : PhaseRenderView(preview)
ComputePhase ==
    \E i \in 1..Len(datasets), method \in MethodsTried : compute_phase_entry(i, method)

Next ==
    \/ LoadOne \/ ChooseReference \/ GetReferenceCall \/ Clear
    \/ SelectWindow \/ TypeArgs \/ TypeStart
    \/ FrequencyRenderView \/ OnComputeFft \/ PhaseRender \/ ComputePhase

Spec == Init /\ [][Next]_vars

----------------------------------------------------------------------------
(* Specification of the pages driven with entries that do not parse, with  *)
(* the unwrap method switched and with the reference moved between stored  *)
(* datasets                                                                *)

PathsEntered == {"a.csv", "b.csv"}
ArgTextsEntered == {"", "1,2", "x"}
StartTextsEntered == {"", "abc"}
RefsEntered == {"a.csv", "b.csv"}

\* the method a phase derived under the selection m is tagged with
MethodOf(m) == IF m = "Blind" THEN "Blind" ELSE "Informed"

LoadEntered ==
    \E path \in PathsEntered : Fits(<<path>>, MaxLoaded) /\ load_files(<<path>>)
TypeArgsEntered == \E text \in ArgTextsEntered : TypeWindowArgs(text)
TypeStartEntered == \E text \in StartTextsEntered : TypeStartTime(text)
ChooseEntered == \E path \in RefsEntered : set_reference(path)
SelectUnwrap ==
    \E m \in UnwrapValues, preview \in BOOLEAN : SelectUnwrapMethod(m, preview)
ComputePhaseSelected ==
    \E i \in 1..Len(datasets) : compute_phase_entry(i, MethodOf(unwrap_method))

NextConfig ==
    \/ LoadEntered \/ ChooseEntered \/ SelectWindow \/ TypeArgsEntered
    \/ TypeStartEntered \/ OnComputeFft \/ SelectUnwrap \/ ComputePhaseSelected

SpecConfig == Init /\ [][NextConfig]_vars

----------------------------------------------------------------------------
(* Specification of core/processing.py: each function applied once to      *)
(* arguments drawn from small sets.  op holds the arguments, then the call *)
(* with its result.                                                        *)

\* the samples of a signal: one real, one imaginary and larger in modulus
Samples == {<<2, 0>>, <<0, 3>>}
Signals == UNION {[1..n -> Samples] : n \in 0..MaxN}
\* the time axis that goes with a signal of n samples: 10 ps apart
TimeAxis(n) == [k \in 1..n |-> 10 * (k - 1)]

\* window names (one that scipy does not know) and argument lists (one too
\* long for every window)
WindowNames == {"None", "hann", "hamming", "blackman", "tukey", "bogus"}
WindowArgLists == {<<>>, <<25>>, <<25, 50>>}
StartIndices == (0 - 2)..(MaxN + 2)
StopIndices == {NoIdx} \cup {Some(n) : n \in (0 - 2)..(MaxN + 2)}

WindowInputs ==
    [name : {"window_args"}, x : Signals, window_type : WindowNames,
     window_args : WindowArgLists, start_idx : StartIndices,
     stop_idx : StopIndices, zero_outside_window : BOOLEAN]

\* frequency axes 0, 1, 2, ... THz of six bins and more
FreqAxes == {[k \in 1..n |-> k - 1] : n \in 6..MaxBins}
\* peak times and delays, in eighths of a ps (16 is 2.0 ps)
PeakTimes == {0, 1, 3, 16}
\* magnitudes of a transmission: 1 at every bin, or weak from the fifth bin on
MagProfiles == {"flat", "weak tail"}
MagAt(profile, k) == IF profile = "weak tail" /\ k >= 5 THEN 10 ELSE 100

\* T[k] = mag[k] * exp(-i 2 pi f[k] delay): a pure delay
PureDelay(freqs_thz, delay, profile) ==
    [k \in 1..Len(freqs_thz) |->
        [mag |-> MagAt(profile, k), ang |-> Wrap(0 - freqs_thz[k] * delay)]]

\* a transmission with the phase of its first bin (0 THz) turned by dc and
\* the phase of every other bin by off
Turned(T, dc, off) ==
    [k \in 1..Len(T) |->
        [mag |-> T[k].mag, ang |-> Wrap(T[k].ang + (IF k = 1 THEN dc ELSE off))]]
DcTurns == {0, 0 - 3}
Offsets == {0, 3}

UnwrapInputs ==
    {[name |-> "unwrap_args", freqs_thz |-> f,
      T_complex |-> Turned(PureDelay(f, d, m), dc, off),
      t0_sam_ps |-> ts, t0_ref_ps |-> tr] :
        f \in FreqAxes, d \in PeakTimes, m \in MagProfiles,
        ts \in PeakTimes, tr \in {0, 1}, dc \in DcTurns, off \in Offsets}

\* the bins of a spectrum: 0, magnitudes below, at and above the floor 1e-12
\* and one near the largest double
BinValues ==
    {ZeroBin, Bin(0 - 320, 0), Bin(0 - 20, 0), Bin(FloorExp, 3), Bin(0, 0),
     Bin(0, 3), Bin(300, 0)}
Spectra(n) == [1..n -> BinValues]
NormalizeInputs ==
    UNION {[name : {"normalize_args"}, X : Spectra(n), X_ref : Spectra(n)] :
             n \in 1..MaxSpectrum}

\* phase curves, wrapped or not, with steps below, at and above half a turn
PhaseValues == (0 - 5)..5
PhaseInputs ==
    UNION {[name : {"phase_args"}, p : [1..n -> PhaseValues]] : n \in 0..MaxPhases}

InitProc ==
    /\ datasets = <<>>
    /\ reference_path = None
    /\ window_type = "None"
    /\ window_args_text = ""
    /\ start_time_ps = ""
    /\ stop_time_ps = ""
    /\ unwrap_method = "Blind"
    /\ op \in WindowInputs \cup UnwrapInputs \cup NormalizeInputs \cup PhaseInputs

ApplyWindowCall ==
    /\ op.name = "window_args"
    /\ op' = [name |-> "apply_window", args |-> op, raised |-> None,
              ret |-> apply_window(TimeAxis(Len(op.x)), op.x, op.window_type,
                                   op.window_args, op.start_idx, op.stop_idx,
                                   op.zero_outside_window)]
    /\ UNCHANGED <<storeVars, freqVars, phaseVars>>

\* compute_fft has no zero_outside_window parameter
ComputeFftCall ==
    /\ op.name = "window_args"
    /\ op.zero_outside_window
    /\ op' = [name |-> "compute_fft", args |-> op, raised |-> None,
              ret |-> compute_fft(TimeAxis(Len(op.x)), op.x, op.window_type,
                                  op.window_args, op.start_idx, op.stop_idx)]
    /\ UNCHANGED <<storeVars, freqVars, phaseVars>>

\* fit_mask and mag_threshold are left at their defaults, None and 0.2
UnwrapInformedCall ==
    /\ op.name = "unwrap_args"
    /\ op' = [name |-> "unwrap_phase_informed", args |-> op, raised |-> None,
              ret |-> unwrap_phase_informed(op.freqs_thz, op.T_complex,
                                            op.t0_sam_ps, op.t0_ref_ps, NoMask, 20)]
    /\ UNCHANGED <<storeVars, freqVars, phaseVars>>

NormalizeFftCall ==
    /\ op.name = "normalize_args"
    /\ op' = [name |-> "normalize_fft", args |-> op, raised |-> None,
              ret |-> normalize_fft_values(op.X, op.X_ref)]
    /\ UNCHANGED <<storeVars, freqVars, phaseVars>>

UnwrapPhaseCall ==
    /\ op.name = "phase_args"
    /\ op' = [name |-> "unwrap_phase", args |-> op, raised |-> None,
              ret |-> unwrap_phase(op.p)]
    /\ UNCHANGED <<storeVars, freqVars, phaseVars>>

NextProc ==
    \/ ApplyWindowCall \/ ComputeFftCall \/ UnwrapInformedCall
    \/ NormalizeFftCall \/ UnwrapPhaseCall

SpecProc == InitProc /\ [][NextProc]_vars

----------------------------------------------------------------------------
(* Properties of the store *)

\* two time axes agree: equal length, element-wise within the tolerance
AxesAgree(t, u) ==
    /\ Len(t) = Len(u)
    /\ \A k \in 1..Len(t) : Abs(t[k] - u[k]) <= Atol

\* what a load leaves of a dataset untouched: its identity and its data
Core(ds) == [name |-> ds.name, path |-> ds.path, df |-> ds.df]
Cores(dss) == [i \in 1..Len(dss) |-> Core(dss[i])]
StoredPaths(dss) == [i \in 1..Len(dss) |-> dss[i].path]

Readable(file_paths) == SelectSeq(file_paths, LAMBDA q : q \notin Unreadable)

\* C2: in every state reachable by load_files, set_reference and clear,
\* every dataset's time axis has the length of the first dataset's axis and
\* differs from it element-wise by at most 1e-12
C2_SharedTimeAxis ==
    \A i \in 1..Len(datasets) :
        AxesAgree(datasets[i].df.time, datasets[1].df.time)

\* three datasets stored, two of which agree with the first but not with
\* each other
C2_Witness ==
    /\ Len(datasets) = 3
    /\ ~ AxesAgree(datasets[2].df.time, datasets[3].df.time)

\* C3: a load_files candidate whose axis disagrees with the first stored
\* dataset is not added and is returned as (path, "Time axis mismatch..."),
\* and the rest of the batch is processed as if it had not been in the batch
C3_MismatchSkipped ==
    [][op'.name = "load_files" =>
        LET batch == op'.file_paths
            Mismatch(q) == /\ q \notin Unreadable
                           /\ datasets' # <<>>
                           /\ ~ AxesAgree(FileTime(q), datasets'[1].df.time)
            kept == SelectSeq(batch, LAMBDA q : ~ Mismatch(q))
            dropped == SelectSeq(batch, Mismatch)
        IN  /\ Len(op'.ret) = Len(dropped)
            /\ \A k \in 1..Len(dropped) :
                  /\ op'.ret[k][1] = dropped[k]
                  /\ SubSeq(op'.ret[k][2], 1, 18) = "Time axis mismatch"
            /\ \A i \in (Len(datasets) + 1)..Len(datasets') :
                  ~ Mismatch(datasets'[i].path)
            /\ datasets' = LoadResult(datasets, kept).datasets
            /\ LoadResult(datasets, kept).skipped = <<>>
    ]_vars

\* a batch of three into the empty store: the second is skipped, the first
\* and the third are stored
C3_Witness ==
    /\ op.name = "load_files"
    /\ Len(op.file_paths) = 3
    /\ op.ret = <<<<op.file_paths[2], MismatchReason>>>>
    /\ StoredPaths(datasets) = <<op.file_paths[1], op.file_paths[3]>>

\* C4: a load_files candidate whose parsing raises lets no exception reach
\* the caller, adds no dataset and no skip entry, and does not stop the
\* rest of the batch: the call returns what it returns without the candidate
C4_ParseFailureSwallowed ==
    [][op'.name = "load_files" =>
        LET batch == op'.file_paths
            good == Readable(batch)
        IN  /\ op'.raised = None
            /\ \A k \in 1..Len(op'.ret) : op'.ret[k][1] \notin Unreadable
            /\ \A i \in (Len(datasets) + 1)..Len(datasets') :
                  datasets'[i].path \notin Unreadable
            /\ datasets' = LoadResult(datasets, good).datasets
            /\ op'.ret = LoadResult(datasets, good).skipped
    ]_vars

\* an unreadable file first in the batch, the file after it stored, and an
\* empty skip list
C4_Witness ==
    /\ op.name = "load_files"
    /\ Len(op.file_paths) >= 2
    /\ op.file_paths[1] \in Unreadable
    /\ op.ret = <<>>
    /\ datasets # <<>>
    /\ datasets[Len(datasets)].path = op.file_paths[Len(op.file_paths)]

\* C5: the store keeps insertion order; into the empty store the first
\* readable candidate is accepted and decides the rest of its batch; and
\* except through clear the stored list only grows at its end and never
\* becomes empty again
C5_FirstDefinesAxis ==
    [][/\ op'.name # "clear" =>
            /\ Len(datasets) <= Len(datasets')
            /\ SubSeq(Cores(datasets'), 1, Len(datasets)) = Cores(datasets)
       /\ (op'.name = "load_files" /\ datasets = <<>>) =>
            LET good == Readable(op'.file_paths)
            IN  good # <<>> =>
                  /\ datasets' # <<>>
                  /\ datasets'[1].path = good[1]
                  /\ datasets'[1].df.time = FileTime(good[1])
                  /\ StoredPaths(datasets') =
                        SelectSeq(good, LAMBDA q :
                                    AxesAgree(FileTime(q), FileTime(good[1])))
    ]_vars

\* one more dataset loaded behind two others
C5_Witness ==
    /\ op.name = "load_files"
    /\ Len(op.file_paths) = 1
    /\ Len(datasets) = 3
    /\ datasets[3].path = op.file_paths[1]
    /\ datasets[1].path # datasets[3].path

\* C6: after clear the store has no datasets and no reference,
\* get_reference returns None, and the next load accepts its first
\* readable candidate whatever its time axis
C6_ClearEmptiesStore ==
    [][/\ op'.name = "clear" =>
            /\ datasets' = <<>>
            /\ reference_path' = None
            /\ GetReference(datasets', reference_path') = NoneObj
       /\ (op.name = "clear" /\ op'.name = "load_files") =>
            LET good == Readable(op'.file_paths)
            IN  good # <<>> =>
                  /\ datasets' # <<>>
                  /\ datasets'[1].path = good[1]
    ]_vars

\* clear called on a full store with a reference chosen
C6_Witness ==
    /\ op.name = "clear"
    /\ op.dropped = MaxDatasets
    /\ ~ Falsy(op.had_reference)
    /\ datasets = <<>>

\* C7: get_reference returns a dataset only if the reference path is set and
\* is the path of a stored dataset, and then returns that (first such)
\* stored dataset; with the path unset, empty or not stored it returns None
C7_ReferenceResolves ==
    op.name = "get_reference" =>
        LET matching == {i \in 1..Len(datasets) : datasets[i].path = reference_path}
        IN  IF reference_path = None \/ reference_path = "" \/ matching = {}
            THEN op.ret = NoneObj
            ELSE /\ op.ret # NoneObj
                 /\ op.ret.path = reference_path
                 /\ \E i \in matching :
                       /\ op.ret = datasets[i]
                       /\ \A j \in matching : i <= j

\* the reference is the second stored dataset, and get_reference returned it
C7_Witness ==
    /\ op.name = "get_reference"
    /\ Len(datasets) >= 2
    /\ datasets[1].path # reference_path
    /\ op.ret = datasets[2]

----------------------------------------------------------------------------
(* Properties of the results cache *)

Stored(dss) == 1..Len(dss)

\* the window that the entries wtype, args_txt, start_txt ("" or "1e-11")
\* and stop_txt ("" or "1e-11") select for the time axis t
WindowOf(wtype, args_txt, start_txt, stop_txt, t) ==
    [type |-> wtype,
     args |-> IF wtype # "tukey" THEN <<>>
              ELSE IF args_txt = "0.25" THEN <<25>> ELSE <<50>>,
     start_idx |-> IF start_txt = "" THEN 0
                   ELSE Cardinality({k \in 1..Len(t) : t[k] < 10}),
     stop_idx |-> IF stop_txt = "" THEN Len(t)
                  ELSE Cardinality({k \in 1..Len(t) : t[k] <= 10})]

\* the window the Frequency page selects now
SelectedWindow(t) ==
    WindowOf(window_type, window_args_text, start_time_ps, stop_time_ps, t)

\* C1: whenever a dataset's cached spectrum is written, its cached phase is
\* removed and no normalized spectrum of the old spectrum stays, so a cached
\* phase is always one of the spectrum now cached and a phase lookup after a
\* recomputation finds nothing
C1_SpectrumInvalidatesPhase ==
    [][/\ \A i \in Stored(datasets) \cap Stored(datasets') :
            (/\ Has(datasets'[i].results, "fft")
             /\ \/ ~ Has(datasets[i].results, "fft")
                \/ datasets'[i].results["fft"] # datasets[i].results["fft"])
            => /\ ~ Has(datasets'[i].results, "phase")
               /\ Has(datasets'[i].results, "fft_normalized") =>
                     datasets'[i].results["fft_normalized"].FFT.num =
                        datasets'[i].results["fft"].FFT
       /\ (op'.name = "on_compute_fft" /\ op'.ran) =>
            \A i \in Stored(datasets') : ~ Has(datasets'[i].results, "phase")
       /\ \A i \in Stored(datasets') :
            Has(datasets'[i].results, "phase") =>
               /\ Has(datasets'[i].results, "fft")
               /\ datasets'[i].results["phase"].method = "Blind" =>
                     datasets'[i].results["phase"].of =
                        datasets'[i].results["fft"].FFT
    ]_vars

\* a spectrum computation has just removed a cached phase, and the spectrum
\* it left has another window than the default one the first run used
C1_Witness ==
    /\ op.name = "on_compute_fft"
    /\ op.ran
    /\ op.had_phase # {}
    /\ \A i \in Stored(datasets) : ~ Has(datasets[i].results, "phase")
    /\ datasets[1].results["fft"].window.type = "tukey"

\* C8: set_reference changes the reference path and nothing else (not the
\* list of datasets, not any results cache), and get_reference changes
\* nothing
C8_ReferenceFrame ==
    [][/\ op'.name = "set_reference" =>
            /\ datasets' = datasets
            /\ reference_path' = op'.path
            /\ UNCHANGED freqVars
       /\ op'.name = "get_reference" =>
            UNCHANGED <<datasets, reference_path, freqVars>>
    ]_vars

\* another reference is chosen while the datasets hold normalized spectra
\* and a phase
C8_Witness ==
    /\ op.name = "set_reference"
    /\ Len(datasets) = 2
    /\ \A i \in Stored(datasets) : Has(datasets[i].results, "fft_normalized")
    /\ \E i \in Stored(datasets) : Has(datasets[i].results, "phase")
    /\ GetReference(datasets, reference_path) = NoneObj

\* C9: a spectrum computation normalizes every dataset by the spectrum the
\* reference got in that same run; when no reference resolves no dataset
\* keeps a normalized spectrum; and the lack of a reference raises nothing:
\* the run raises only on an axis too short for the transform
C9_NormalizeAfterReference ==
    [][op'.name = "on_compute_fft" =>
        /\ op'.ran =>
            LET R == GetReference(datasets', reference_path')
            IN  IF R = NoneObj
                THEN \A i \in Stored(datasets') :
                        ~ Has(datasets'[i].results, "fft_normalized")
                ELSE /\ R.results["fft"].window =
                           WindowOf(window_type', window_args_text',
                                    start_time_ps', stop_time_ps', R.df.time)
                     /\ \A i \in Stored(datasets') :
                           /\ Has(datasets'[i].results, "fft_normalized")
                           /\ datasets'[i].results["fft_normalized"].FFT =
                                 [num |-> datasets'[i].results["fft"].FFT,
                                  den |-> R.results["fft"].FFT]
        /\ ~ op'.ran => datasets' = datasets
        /\ op'.raised # None => Len(datasets[1].df.time) < 2
        /\ op'.ran <=> /\ datasets # <<>>
                       /\ start_time_ps # "abc"
                       /\ Len(datasets[1].df.time) >= 2
    ]_vars

\* the reference is the second dataset: the first is normalized by a
\* spectrum computed after its own, with a window other than the default
C9_Witness ==
    /\ op.name = "on_compute_fft"
    /\ op.ran
    /\ Len(datasets) = 2
    /\ datasets[1].path # datasets[2].path
    /\ reference_path = datasets[2].path
    /\ datasets[1].results["fft_normalized"].FFT.den = datasets[2].results["fft"].FFT
    /\ datasets[2].results["fft"].window.type = "tukey"

\* C10 as stated: every cached spectrum was computed with the windowing
\* parameters now selected
C10_Original ==
    \A i \in Stored(datasets) :
        Has(datasets[i].results, "fft") =>
            datasets[i].results["fft"].window = SelectedWindow(datasets[i].df.time)

\* what the Frequency page does instead: only a spectrum computation replaces
\* a cached spectrum; one that runs leaves every dataset the spectrum of the
\* windowing parameters selected at that moment (the defaults for arguments
\* that do not parse), one that does not run leaves the cache as it was, and
\* changing the parameters or redrawing neither invalidates nor recomputes
C10_RecomputedOnlyOnRequest ==
    [][/\ (op'.name = "on_compute_fft" /\ op'.ran) =>
            \A i \in Stored(datasets') :
               /\ Has(datasets'[i].results, "fft")
               /\ datasets'[i].results["fft"].window =
                     WindowOf(window_type', window_args_text',
                              start_time_ps', stop_time_ps', datasets'[i].df.time)
               /\ op'.shown.plotted[i] = datasets'[i].results["fft"]
       /\ (op'.name = "on_compute_fft" /\ ~ op'.ran) => datasets' = datasets
       /\ op'.name \in {"select_window_type", "type_window_args",
                        "type_start_time", "type_stop_time",
                        "FrequencyPage.render_view"} => datasets' = datasets
    ]_vars

\* the window type was changed after a computation: the redraw plots the
\* spectrum of the old window
C10_Witness ==
    /\ op.name = "select_window_type"
    /\ op.shown.plotted # <<>>
    /\ op.shown.plotted[1].window.type # window_type
    /\ datasets[1].results["fft"] = op.shown.plotted[1]

----------------------------------------------------------------------------
(* Properties of apply_window and compute_fft *)

\* the signal as apply_window returns it when it changes nothing
Copy(x) == [k \in 1..Len(x) |-> Times(x[k], One)]

\* the region [lo, hi) that the arguments select in a signal of n samples,
\* clamped as the contract of apply_window says: both ends to [0, n], the
\* stop not below the start
RegionLo(n, start_idx) == Min(n, Max(0, start_idx))
RegionHi(n, start_idx, stop_idx) ==
    Max(RegionLo(n, start_idx),
        Min(n, Max(0, IF stop_idx = NoIdx THEN n ELSE stop_idx[1])))

AppliedWindow == op.name = "apply_window" /\ ~ IsRaised(op.ret)

\* C14: for a signal of N samples and any integers start_idx and stop_idx
\* (negative, beyond N, stop omitted), the indices apply_window returns
\* satisfy 0 <= start_idx <= stop_idx <= N
C14_IndicesClamped ==
    AppliedWindow =>
        /\ 0 <= op.ret.value.start_idx
        /\ op.ret.value.start_idx <= op.ret.value.stop_idx
        /\ op.ret.value.stop_idx <= Len(op.args.x)

\* C15 as stated: the output has the input's length; every sample outside
\* the clamped region is zero with zero_outside_window and the input sample
\* without it; every sample inside is the input times the window value
C15_Original ==
    AppliedWindow =>
        LET a == op.args
            r == op.ret.value
            lo == RegionLo(Len(a.x), a.start_idx)
            hi == RegionHi(Len(a.x), a.start_idx, a.stop_idx)
        IN  /\ Len(r.xw) = Len(a.x)
            /\ \A k \in 1..Len(a.x) :
                  r.xw[k] = IF lo < k /\ k <= hi THEN Times(a.x[k], r.w[k - lo])
                            ELSE IF a.zero_outside_window THEN Zero
                            ELSE Times(a.x[k], One)

\* C15 amended: so it is when the clamped region is not empty; when it is
\* empty the output is the input, also with zero_outside_window
C15_OutsideZeroUnlessEmpty ==
    AppliedWindow =>
        LET a == op.args
            r == op.ret.value
            lo == RegionLo(Len(a.x), a.start_idx)
            hi == RegionHi(Len(a.x), a.start_idx, a.stop_idx)
        IN  /\ Len(r.xw) = Len(a.x)
            /\ IF lo = hi THEN r.xw = Copy(a.x)
               ELSE \A k \in 1..Len(a.x) :
                      r.xw[k] = IF lo < k /\ k <= hi
                                THEN Times(a.x[k], r.w[k - lo])
                                ELSE IF a.zero_outside_window THEN Zero
                                ELSE Times(a.x[k], One)

\* a hann window over the last two of three samples, the first sample zeroed
C15_Witness ==
    /\ AppliedWindow
    /\ op.args.zero_outside_window
    /\ op.args.window_type = "hann"
    /\ Len(op.args.x) = 3
    /\ op.ret.value.start_idx = 1
    /\ op.ret.value.stop_idx = 3
    /\ op.ret.value.xw[1] = Zero
    /\ op.ret.value.xw[3] = Times(op.args.x[3], One)

\* C16: when the clamped region is empty apply_window raises nothing,
\* whatever the window type and arguments, and returns the signal
\* unmodified, an empty window and the clamped indices
C16_EmptyRegionReturnsInput ==
    op.name = "apply_window" =>
        LET a == op.args
            lo == RegionLo(Len(a.x), a.start_idx)
            hi == RegionHi(Len(a.x), a.start_idx, a.stop_idx)
        IN  lo = hi =>
              /\ ~ IsRaised(op.ret)
              /\ op.ret.value.xw = Copy(a.x)
              /\ op.ret.value.w = <<>>
              /\ op.ret.value.start_idx = lo
              /\ op.ret.value.stop_idx = hi

\* what holds of the empty region: nothing is raised, the signal and an
\* empty window are returned, and the two indices are equal and not negative
EmptyRegionNeverRaises ==
    op.name = "apply_window" =>
        LET a == op.args
            lo == RegionLo(Len(a.x), a.start_idx)
            hi == RegionHi(Len(a.x), a.start_idx, a.stop_idx)
        IN  lo = hi =>
              /\ ~ IsRaised(op.ret)
              /\ op.ret.value.xw = Copy(a.x)
              /\ op.ret.value.w = <<>>
              /\ op.ret.value.start_idx = Max(0, a.start_idx)
              /\ op.ret.value.stop_idx = Max(0, a.start_idx)

\* the arguments of C17: a window scipy knows or "None", no window
\* arguments, the whole signal, zero_outside_window = False
FullRangeCall ==
    /\ op.name = "apply_window"
    /\ op.args.window_type \in ScipyWindows \cup {"None"}
    /\ op.args.window_args = <<>>
    /\ op.args.start_idx = 0
    /\ op.args.stop_idx \in {NoIdx, Some(Len(op.args.x))}
    /\ ~ op.args.zero_outside_window

ComputedFft ==
    /\ op.name = "compute_fft"
    /\ \/ op.args.window_type = "None"
       \/ /\ op.args.window_type \in ScipyWindows
          /\ Len(op.args.window_args) <= ScipyMaxArgs(op.args.window_type)

\* C18: for every trace length N and every window setting compute_fft
\* raises nothing and returns a frequency axis and a spectrum of N \div 2
\* bins each
C18_HalfTheBins ==
    ComputedFft =>
        /\ ~ IsRaised(op.ret)
        /\ Len(op.ret.Freqs) = Len(op.args.x) \div 2
        /\ op.ret.FFT.bins = Len(op.args.x) \div 2

\* what holds: so it is for a trace of two samples or more, and a shorter
\* trace raises IndexError
HalfTheBinsFromTwoSamples ==
    ComputedFft =>
        IF Len(op.args.x) < 2 THEN op.ret = Raised("IndexError")
        ELSE /\ ~ IsRaised(op.ret)
             /\ Len(op.ret.Freqs) = Len(op.args.x) \div 2
             /\ op.ret.FFT.bins = Len(op.args.x) \div 2

\* |real part| of the windowed signal, zero outside the clamped region
WindowedReal(a) ==
    LET n == Len(a.x)
        lo == RegionLo(n, a.start_idx)
        hi == RegionHi(n, a.start_idx, a.stop_idx)
        w == IF a.window_type = "None" THEN Ones(hi - lo)
             ELSE ScipyValues(a.window_type, a.window_args, hi - lo)
    IN  [k \in 1..n |-> IF lo < k /\ k <= hi THEN Abs(a.x[k][1] * w[k - lo]) ELSE 0]

\* C19: the peak time compute_fft returns is the time at an index where
\* |real part| of the windowed, zeroed-outside signal is largest, and NaN
\* for an empty signal
C19_PeakOfWindowedReal ==
    ComputedFft =>
        IF Len(op.args.x) = 0
        THEN /\ ~ IsRaised(op.ret)
             /\ op.ret.t_peak_ps = NaN
        ELSE ~ IsRaised(op.ret) =>
                \E k \in 1..Len(op.args.x) :
                    /\ op.ret.t_peak_ps = TimeAxis(Len(op.args.x))[k]
                    /\ \A j \in 1..Len(op.args.x) :
                          WindowedReal(op.args)[j] <= WindowedReal(op.args)[k]

\* what holds: the peak time is the time at the first index of the largest
\* modulus, of the windowed and zeroed signal when the clamped region is not
\* empty and of the signal as it came when it is
PeakOfModulus ==
    (ComputedFft /\ ~ IsRaised(op.ret)) =>
        LET a == op.args
            n == Len(a.x)
            lo == RegionLo(n, a.start_idx)
            hi == RegionHi(n, a.start_idx, a.stop_idx)
            w == IF a.window_type = "None" THEN Ones(hi - lo)
                 ELSE ScipyValues(a.window_type, a.window_args, hi - lo)
            xw == IF lo = hi THEN Copy(a.x)
                  ELSE [k \in 1..n |-> IF lo < k /\ k <= hi
                                       THEN Times(a.x[k], w[k - lo]) ELSE Zero]
        IN  \E k \in 1..n :
                /\ op.ret.t_peak_ps = TimeAxis(n)[k]
                /\ \A j \in 1..n : AbsSq(xw[j]) <= AbsSq(xw[k])
                /\ \A j \in 1..(k - 1) : AbsSq(xw[j]) < AbsSq(xw[k])

----------------------------------------------------------------------------
(* Properties of unwrap_phase_informed *)

\* the scenario of C20: freqs_THz = [0, 1, 2, 3, 4, 5], t0_sample_ps = 2.0,
\* t0_reference_ps = 0.0 and T[k] = exp(-i 2 pi f[k] 2.0)
PureDelayScenario ==
    /\ op.name = "unwrap_phase_informed"
    /\ op.args.freqs_thz = <<0, 1, 2, 3, 4, 5>>
    /\ op.args.t0_sam_ps = 16
    /\ op.args.t0_ref_ps = 0
    /\ op.args.T_complex = PureDelay(op.args.freqs_thz, 16, "flat")

\* C20: in the pure-delay scenario unwrap_phase_informed returns the
\* unwrapped phase -2 pi f[k] 2.0 at every bin and the fit intercept 0
C20_PureDelayUnwrapped ==
    PureDelayScenario =>
        /\ \A k \in 1..6 :
              op.ret.Unwrapped_Phase[k] = 0 - op.args.freqs_thz[k] * 16
        /\ op.ret.fit_intercept_B.num = 0

\* what it returns there: the ramp with the opposite sign, +2 pi f[k] 2.0,
\* and the intercept 0 of the fit that five bins above 0 THz do not start
PureDelayReturned ==
    PureDelayScenario =>
        /\ \A k \in 1..6 :
              op.ret.Unwrapped_Phase[k] = op.args.freqs_thz[k] * 16
        /\ op.ret.fit_intercept_B = [num |-> 0, den |-> 1]

----------------------------------------------------------------------------
(* Properties of the pages: configuration errors and the unwrap method *)

\* the text in the window-argument entry does not fit the selected window
BadWindowArgs == IsRaised(_parse_window_args(window_type, window_args_text))

\* the text in a time entry does not parse
BadTimeBounds ==
    IsRaised(_parse_window_indices(datasets, start_time_ps, stop_time_ps))

\* C13: a wrong number of window arguments (or one that is no number) typed
\* for the selected window is reported by the spectrum computation as a
\* configuration error, and no spectrum is computed with other arguments
\* in its place.
C13_BadArgsReported ==
    (op.name = "on_compute_fft" /\ datasets # <<>>
        /\ ~ BadTimeBounds /\ BadWindowArgs)
    => /\ op.raised \in {"ValueError", "TypeError"}
       /\ ~ op.ran

\* what on_compute_fft does instead: it runs to its end and every spectrum
\* carries the defaults of the window
BadArgsReplacedByDefaults ==
    (op.name = "on_compute_fft" /\ datasets # <<>>
        /\ ~ BadTimeBounds /\ BadWindowArgs)
    => /\ op.raised = None
       /\ op.ran
       /\ \A i \in 1..Len(datasets) :
             datasets[i].results["fft"].window.args = WindowDefaults(window_type)

\* apply_window itself reports an unknown name and arguments the window
\* does not take, whenever the region holds a sample
ApplyWindowReportsBadWindow ==
    (op.name = "apply_window" /\ op.args.window_type # "None"
        /\ ClampStart(op.args.start_idx)
             < ClampStop(Len(op.args.x), op.args.start_idx, op.args.stop_idx)
        /\ (op.args.window_type \notin ScipyWindows
              \/ Len(op.args.window_args) > ScipyMaxArgs(op.args.window_type)))
    => IsRaised(op.ret)

\* C12: a spectrum computation requested with a time bound that does not
\* parse or with window arguments that do not fit the window surfaces the
\* error and leaves the cached results of every dataset as they were.
C12_ConfigErrorKeepsCache ==
    [][(on_compute_fft /\ datasets # <<>> /\ (BadTimeBounds \/ BadWindowArgs))
       => /\ datasets' = datasets
          /\ (op'.raised # None \/ op'.shown.labels = InvalidIdxText)]_vars

\* the part that holds: a time bound that does not parse is shown in the
\* labels and the cache is left alone
BadTimeBoundsKeepCache ==
    [][(on_compute_fft /\ datasets # <<>> /\ BadTimeBounds)
       => /\ datasets' = datasets
          /\ ~ op'.ran
          /\ op'.shown.labels = InvalidIdxText]_vars

\* C11: a dataset holds a phase only over a spectrum, and once another
\* unwrap method is selected no phase derived under the former one stays
\* cached: every cached phase is tagged with the selected method.
C11_PhaseOfSelectedMethod ==
    \A i \in 1..Len(datasets) :
        Has(datasets[i].results, "phase")
        => /\ Has(datasets[i].results, "fft")
           /\ datasets[i].results["phase"].method = MethodOf(unwrap_method)

\* the part that holds: NoSpectrum -> HasSpectrum -> HasPhase
PhaseOnlyOverSpectrum ==
    \A i \in 1..Len(datasets) :
        Has(datasets[i].results, "phase") => Has(datasets[i].results, "fft")

\* selecting a method leaves the cache as it was
SelectUnwrapKeepsCache ==
    [][unwrap_method' # unwrap_method => datasets' = datasets]_vars

----------------------------------------------------------------------------
(* Properties of normalize_fft *)

NormalizedFft == op.name = "normalize_fft"

InRange(z, d) ==
    z.kind = "zero" \/ z.e - (IF BelowFloor(d) THEN FloorExp ELSE d.e) <= MaxExp

----------------------------------------------------------------------------
(* Properties of unwrap_phase *)

\* no two consecutive samples of p differ by more than pi
Continuous(p) ==
    \A k \in 2..Len(p) : Abs(p[k] - p[k - 1]) <= HalfTurn

\* C22: unwrapping the result of unwrap_phase once more gives that result,
\* and a curve whose consecutive samples never differ by more than pi is
\* returned as it is.
C22_UnwrapIdempotent ==
    op.name = "unwrap_phase" =>
        /\ unwrap_phase(op.ret.Unwrapped_Phase) = op.ret
        /\ Continuous(op.args.p) => op.ret.Unwrapped_Phase = op.args.p

\* a curve with a step above pi, which is folded, followed by a step of
\* exactly pi, which is kept
C22_Witness ==
    /\ op.name = "unwrap_phase"
    /\ op.args.p = <<0, 5, 1>>
    /\ op.ret.Unwrapped_Phase = <<0, 0 - 3, 0 - 7>>
    /\ ~ Continuous(op.args.p)
    /\ Continuous(op.ret.Unwrapped_Phase)

----------------------------------------------------------------------------
(* Properties of unwrap_phase_informed *)

InformedUnwrap == op.name = "unwrap_phase_informed"

\* the ramp 2 pi f[k] (t0_sample - t0_reference) of a call
Ramp(a) ==
    [k \in 1..Len(a.freqs_thz) |-> a.freqs_thz[k] * (a.t0_sam_ps - a.t0_ref_ps)]

\* the naive unwrap of the reduced phase of a call
NaiveReduced(a) ==
    np_unwrap([k \in 1..Len(a.freqs_thz) |-> Wrap(a.T_complex[k].ang - Ramp(a)[k])])

\* the bins above 0 THz whose magnitude exceeds 0.2 of the largest
DefaultMask(a) ==
    [k \in 1..Len(a.freqs_thz) |->
        /\ a.freqs_thz[k] > 0
        /\ \A j \in 1..Len(a.freqs_thz) :
              5 * a.T_complex[k].mag > a.T_complex[j].mag]
Selected(a) == Cardinality({k \in 1..Len(a.freqs_thz) : DefaultMask(a)[k]})

\* the whole cycles in the intercept B
Cycles(B) == rint(B.num, B.den * Turn)

\* C24: without a fit_mask the mask is the bins with freqs_THz > 0 and
\* |T| > mag_threshold * max|T|; the line is fitted only over more than 5
\* such bins, and over 5 or fewer B is 0 and the reduced unwrapped phase is
\* the naive unwrap of the reduced phase.
C24_DefaultMaskAndFit ==
    InformedUnwrap =>
        /\ Selected(op.args) > 5 =>
              op.ret.fit_intercept_B =
                 polyfit_intercept(op.args.freqs_thz, NaiveReduced(op.args),
                                   DefaultMask(op.args))
        /\ Selected(op.args) <= 5 =>
              /\ op.ret.fit_intercept_B = [num |-> 0, den |-> 1]
              /\ op.ret.Reduced_Unwrapped_Phase = NaiveReduced(op.args)

\* exactly five bins are selected, a line through them would have an
\* intercept of a whole cycle, and no cycle is removed
C24_Witness ==
    /\ InformedUnwrap
    /\ Selected(op.args) = 5
    /\ Cycles(polyfit_intercept(op.args.freqs_thz, NaiveReduced(op.args),
                                DefaultMask(op.args))) # 0
    /\ op.ret.fit_intercept_B.num = 0
    /\ op.ret.Reduced_Unwrapped_Phase = NaiveReduced(op.args)

\* C25: at every bin the unwrapped phase minus the reduced unwrapped phase
\* is the ramp 2 pi f[k] (t0_sample - t0_reference), and the reduced
\* unwrapped phase is the naive unwrap of the reduced phase minus the same
\* whole number round(B / 2 pi) of cycles.
C25_RampAndWholeCycles ==
    InformedUnwrap =>
        \A k \in 1..Len(op.args.freqs_thz) :
            /\ op.ret.Unwrapped_Phase[k] - op.ret.Reduced_Unwrapped_Phase[k]
                  = Ramp(op.args)[k]
            /\ op.ret.Reduced_Unwrapped_Phase[k]
                  = NaiveReduced(op.args)[k] - Turn * Cycles(op.ret.fit_intercept_B)

\* a fit whose intercept holds a whole cycle, which is removed, and peak
\* times that differ
C25_Witness ==
    /\ InformedUnwrap
    /\ Cycles(op.ret.fit_intercept_B) # 0
    /\ op.args.t0_sam_ps # op.args.t0_ref_ps
    /\ op.ret.Reduced_Unwrapped_Phase # NaiveReduced(op.args)

\* C29: at every bin the unwrapped phase is the principal argument of T
\* plus a whole number of cycles.
C29_CongruentToMeasured ==
    InformedUnwrap =>
        \A k \in 1..Len(op.args.freqs_thz) :
            (op.ret.Unwrapped_Phase[k] - op.args.T_complex[k].ang) % Turn = 0

\* a call that adds cycles to the measured phase at some bin, with a ramp
\* that is no whole number of cycles there
C29_Witness ==
    /\ InformedUnwrap
    /\ \E k \in 1..Len(op.args.freqs_thz) :
          /\ op.ret.Unwrapped_Phase[k] # op.args.T_complex[k].ang
          /\ Ramp(op.args)[k] % Turn # 0
          /\ (2 * Ramp(op.args)[k]) % Turn # 0

----------------------------------------------------------------------------
(* Properties of the store: identity of the datasets *)

\* C27: no two datasets of the store have the same path; loading a path
\* that is stored already adds no second dataset of that path.
C27_NoDuplicateIdentity ==
    \A i, j \in 1..Len(datasets) :
        datasets[i].path = datasets[j].path => i = j

\* what load_files does with a path that is stored already: it appends a
\* dataset for every readable candidate whose axis agrees, stored or not
LoadAppendsWhateverIsStored ==
    [][op'.name = "load_files" =>
        LET accepted == SelectSeq(op'.file_paths,
                                  LAMBDA q : /\ q \notin Unreadable
                                             /\ datasets' # <<>>
                                             /\ AxesAgree(FileTime(q),
                                                          datasets'[1].df.time))
        IN  StoredPaths(datasets') = StoredPaths(datasets) \o accepted
    ]_vars

\* the reference still designates one dataset: the first of its path
ReferenceIsFirstOfItsPath ==
    LET R == GetReference(datasets, reference_path)
    IN  R # NoneObj =>
           \E i \in 1..Len(datasets) :
               /\ datasets[i] = R
               /\ \A j \in 1..(i - 1) : datasets[j].path # reference_path

----------------------------------------------------------------------------
(* Properties of the results cache across loads *)

\* C30: load_files appends the datasets it accepts at the end of the list,
\* each with an empty results dict, and leaves the reference path and every
\* dataset stored before, its results included, as they were; a dataset
\* gets a spectrum or a normalized spectrum only by a spectrum computation
\* that runs to its end.
C30_LoadAppendsEmpty ==
    [][/\ op'.name = "load_files" =>
            /\ reference_path' = reference_path
            /\ Len(datasets') >= Len(datasets)
            /\ SubSeq(datasets', 1, Len(datasets)) = datasets
            /\ \A i \in (Len(datasets) + 1)..Len(datasets') :
                  datasets'[i].results = EmptyDict
       /\ \A i \in Stored(datasets') :
            (/\ \/ Has(datasets'[i].results, "fft")
                \/ Has(datasets'[i].results, "fft_normalized")
             /\ \/ i > Len(datasets)
                \/ ~ Has(datasets[i].results, "fft"))
            => (op'.name = "on_compute_fft" /\ op'.ran)
    ]_vars

\* a dataset has just been loaded behind one that holds a spectrum
\* normalized by the selected reference
C30_Witness ==
    /\ op.name = "load_files"
    /\ Len(datasets) = 2
    /\ reference_path = datasets[1].path
    /\ Has(datasets[1].results, "fft")
    /\ Has(datasets[1].results, "fft_normalized")
    /\ datasets[2].results = EmptyDict

----------------------------------------------------------------------------
(* Properties of the stored data *)

\* C23: no step but clear takes a dataset out of the store or changes the
\* name, the path, the time axis or the signal of a stored dataset: a
\* spectrum computation, a redraw and a phase derivation change results
\* dicts only, and a load appends.
C23_DataNeverModified ==
    [][op'.name # "clear" =>
        /\ Len(datasets') >= Len(datasets)
        /\ SubSeq(Cores(datasets'), 1, Len(datasets)) = Cores(datasets)
        /\ op'.name # "load_files" => Len(datasets') = Len(datasets)
    ]_vars

\* a spectrum computation has just windowed the signals with a window that
\* zeroes the first sample, and the stored signal still has it
C23_Witness ==
    /\ op.name = "on_compute_fft"
    /\ op.ran
    /\ datasets[1].results["fft"].window.type = "tukey"
    /\ datasets[1].df.complex[1] # Zero
    /\ datasets[1].df.complex = load_data(datasets[1].path).complex
    /\ apply_window(datasets[1].df.time, datasets[1].df.complex, "tukey",
                    datasets[1].results["fft"].window.args, 0, NoIdx,
                    TRUE).value.xw[1] = Zero

----------------------------------------------------------------------------
(* Properties of the results cache: spectrum and normalized spectrum *)

\* C28: a dataset with a normalized spectrum has a spectrum; and right
\* after a spectrum computation that ran to its end every dataset has a
\* spectrum, and every dataset, the reference included, has a normalized
\* spectrum if the reference resolves, and none has one if it does not.
C28_SpectrumUnderNormalized ==
    /\ \A i \in Stored(datasets) :
          Has(datasets[i].results, "fft_normalized")
             => Has(datasets[i].results, "fft")
    /\ (op.name = "on_compute_fft" /\ op.ran) =>
          /\ \A i \in Stored(datasets) : Has(datasets[i].results, "fft")
          /\ IF GetReference(datasets, reference_path) # NoneObj
             THEN \A i \in Stored(datasets) :
                     Has(datasets[i].results, "fft_normalized")
             ELSE \A i \in Stored(datasets) :
                     ~ Has(datasets[i].results, "fft_normalized")

\* a run over two datasets of which the second is the reference: both hold
\* a normalized spectrum, the reference one of itself by itself
C28_Witness ==
    /\ op.name = "on_compute_fft"
    /\ op.ran
    /\ Len(datasets) = 2
    /\ datasets[1].path # reference_path
    /\ datasets[2].path = reference_path
    /\ Has(datasets[1].results, "fft_normalized")
    /\ datasets[2].results["fft_normalized"].FFT =
          [num |-> datasets[2].results["fft"].FFT,
           den |-> datasets[2].results["fft"].FFT]

----------------------------------------------------------------------------
(* Properties of the results cache: the reference of a normalized spectrum *)

\* C26: whenever a dataset holds a normalized spectrum and get_reference()
\* returns a dataset R, that normalized spectrum is the quotient of the
\* dataset's cached spectrum by the cached spectrum of R.
C26_NormalizedByCurrentReference ==
    LET R == GetReference(datasets, reference_path)
    IN  R # NoneObj =>
           \A i \in Stored(datasets) :
               Has(datasets[i].results, "fft_normalized") =>
                  /\ Has(datasets[i].results, "fft")
                  /\ Has(R.results, "fft")
                  /\ datasets[i].results["fft_normalized"].FFT =
                        [num |-> datasets[i].results["fft"].FFT,
                         den |-> R.results["fft"].FFT]

\* what holds: a normalized spectrum is the quotient of the dataset's
\* cached spectrum by the cached spectrum of a stored dataset, the one that
\* was the reference when the spectra were last computed
NormalizedByReferenceOfLastRun ==
    \A i \in Stored(datasets) :
        Has(datasets[i].results, "fft_normalized") =>
           \E j \in Stored(datasets) :
               /\ Has(datasets[j].results, "fft")
               /\ datasets[i].results["fft_normalized"].FFT =
                     [num |-> datasets[i].results["fft"].FFT,
                      den |-> datasets[j].results["fft"].FFT]

====
